---- MODULE Spec2Model ----
(***************************************************************************)
(* A model of scraper/scrape.py: the daily normaliser, the RSC payload     *)
(* locator / span scanner / decoder, the history strategy orchestrator,    *)
(* the paginated screener harvester and the main run.                      *)
(*                                                                         *)
(* Text is a sequence of runs [ch, n, val]: ch is a character (or the name *)
(* of a stretch of JSON text), n the number of characters it stands for.   *)
(* Numbers are kept in tenths (10.5 is 105).  Strings that the code        *)
(* slices or compares are sequences of code points.                        *)
(***************************************************************************)
EXTENDS Integers, Sequences, FiniteSets, TLC

\* ------------------------------------------------------------------------
\* Bounds of the model
\* ------------------------------------------------------------------------
MaxEntries == 3
MaxBody == 3
MaxBlocks == 3
MaxFiber == 2
MaxStocks == 4

\* ------------------------------------------------------------------------
\* Python values
\* ------------------------------------------------------------------------
Num(v)  == [t |-> "num",  n |-> v, s |-> <<>>]
Str(cs) == [t |-> "str",  n |-> 0, s |-> cs]
Null    == [t |-> "null", n |-> 0, s |-> <<>>]
Absent  == [t |-> "absent", n |-> 0, s |-> <<>>]
Dict(d, c) == [t |-> "dict", date |-> d, close |-> c]

\* bool(x) of Python: 0, "", None are falsy.
Truthy(x) == CASE x.t = "num" -> x.n # 0
               [] x.t = "str" -> x.s # <<>>
               [] OTHER -> FALSE

\* dict.get(key): a missing key reads as None.
Get(x) == IF x.t = "absent" THEN Null ELSE x

IsDigit(c) == c >= 48 /\ c <= 57

RECURSIVE DigitsValue(_)
DigitsValue(cs) ==
  IF cs = <<>> THEN 0
  ELSE 10 * DigitsValue(SubSeq(cs, 1, Len(cs) - 1)) + (cs[Len(cs)] - 48)

AllDigits(cs) == \A i \in 1..Len(cs) : IsDigit(cs[i])

DotAt(cs) == IF \E i \in 1..Len(cs) : cs[i] = 46
             THEN CHOOSE i \in 1..Len(cs) : cs[i] = 46 /\ \A j \in 1..(i-1) : cs[j] # 46
             ELSE 0

\* float(str) for an optional sign and a decimal literal with at most one
\* fractional digit, in tenths; ok = FALSE stands for ValueError.
FloatOfStr(cs) ==
  LET signed == cs # <<>> /\ cs[1] \in {43, 45}
      body == IF signed THEN Tail(cs) ELSE cs
      d == DotAt(body)
      ip == IF d = 0 THEN body ELSE SubSeq(body, 1, d - 1)
      fp == IF d = 0 THEN <<>> ELSE SubSeq(body, d + 1, Len(body))
      mag == 10 * DigitsValue(ip) + DigitsValue(fp)
  IN IF AllDigits(ip) /\ AllDigits(fp) /\ Len(ip) + Len(fp) > 0 /\ Len(fp) <= 1
     THEN [ok |-> TRUE, v |-> IF signed /\ cs[1] = 45 THEN 0 - mag ELSE mag]
     ELSE [ok |-> FALSE, v |-> 0]

\* float(x): ok = FALSE stands for ValueError / TypeError.
Float(x) == CASE x.t = "num" -> [ok |-> TRUE, v |-> x.n]
              [] x.t = "str" -> FloatOfStr(x.s)
              [] OTHER -> [ok |-> FALSE, v |-> 0]

\* The concatenation of the sequences ss[lo..hi].
RECURSIVE Cat(_, _, _)
Cat(ss, lo, hi) ==
  IF lo > hi THEN <<>>
  ELSE IF lo = hi THEN ss[lo]
  ELSE LET mid == (lo + hi) \div 2
       IN Cat(ss, lo, mid) \o Cat(ss, mid + 1, hi)

Flatten(ss) == Cat(ss, 1, Len(ss))

\* str.replace(c, "") for one character c.
RemoveChar(cs, c) ==
  Flatten([i \in 1..Len(cs) |-> IF cs[i] = c THEN <<>> ELSE <<cs[i]>>])

\* "Nu."
NU == <<78, 117, 46>>

\* str.replace("Nu.", "")
RemoveNu(cs) ==
  LET at(j) == j >= 1 /\ j + 2 <= Len(cs) /\ SubSeq(cs, j, j + 2) = NU
  IN Flatten([i \in 1..Len(cs) |->
                IF at(i) \/ at(i - 1) \/ at(i - 2) THEN <<>> ELSE <<cs[i]>>])

\* str.strip()
Strip(cs) ==
  LET solid == {i \in 1..Len(cs) : cs[i] # 32}
  IN IF solid = {} THEN <<>>
     ELSE SubSeq(cs, CHOOSE i \in solid : \A j \in solid : i <= j,
                     CHOOSE i \in solid : \A j \in solid : j <= i)

\* parse_number(text)
parse_number(text) ==
  IF text = <<>> THEN Null
  ELSE LET clean == Strip(RemoveChar(RemoveNu(RemoveChar(text, 44)), 37))
           f == FloatOfStr(clean)
       IN IF f.ok THEN Num(f.v) ELSE Str(Strip(text))

\* str(date)[:10]
KeyLen == 10
DateKey(cs) == SubSeq(cs, 1, IF Len(cs) < KeyLen THEN Len(cs) ELSE KeyLen)

\* a < b for Python strings (code point order, a prefix sorts first).
RECURSIVE LexLess(_, _)
LexLess(a, b) ==
  IF b = <<>> THEN FALSE
  ELSE IF a = <<>> THEN TRUE
  ELSE IF a[1] # b[1] THEN a[1] < b[1]
  ELSE LexLess(Tail(a), Tail(b))

\* ------------------------------------------------------------------------
\* deduplicate_daily
\* ------------------------------------------------------------------------
\* One iteration of the loop over entries.  acc = [raised, daily]; daily is
\* the dict, a function from day keys to closes.
DedupStep(acc, e) ==
  IF acc.raised THEN acc
  ELSE IF e.t # "dict" THEN [acc EXCEPT !.raised = TRUE]
  ELSE IF ~Truthy(Get(e.date)) \/ ~Truthy(Get(e.close)) THEN acc
  ELSE LET k == DateKey(e.date.s)
           f == Float(e.close)
       IN IF ~f.ok THEN acc
          ELSE [acc EXCEPT !.daily =
                  [x \in (DOMAIN acc.daily) \cup {k} |->
                      IF x = k THEN f.v ELSE acc.daily[x]]]

\* for e in entries, over entries[lo..hi] in order (split in halves to keep
\* the evaluation shallow).
RECURSIVE DedupLoop(_, _, _, _)
DedupLoop(acc, entries, lo, hi) ==
  IF lo > hi THEN acc
  ELSE IF lo = hi THEN DedupStep(acc, entries[lo])
  ELSE LET mid == (lo + hi) \div 2
       IN DedupLoop(DedupLoop(acc, entries, lo, mid), entries, mid + 1, hi)

\* sorted(daily.items()) as a list of {date, close}.
RECURSIVE SortedItems(_)
SortedItems(daily) ==
  IF DOMAIN daily = {} THEN <<>>
  ELSE LET k == CHOOSE x \in DOMAIN daily :
                   \A y \in DOMAIN daily : y = x \/ LexLess(x, y)
           rest == [x \in (DOMAIN daily) \ {k} |-> daily[x]]
       IN <<[date |-> k, close |-> daily[k]]>> \o SortedItems(rest)

EmptyDict == [x \in {} |-> 0]

\* deduplicate_daily(entries): [raised, out].
deduplicate_daily(entries) ==
  LET acc == DedupLoop([raised |-> FALSE, daily |-> EmptyDict], entries,
                       1, Len(entries))
  IN [raised |-> acc.raised,
      out |-> IF acc.raised THEN <<>> ELSE SortedItems(acc.daily)]

\* ------------------------------------------------------------------------
\* Text
\* ------------------------------------------------------------------------
\* One character.
C(ch) == [ch |-> ch, n |-> 1, k |-> 0, val |-> Null]
\* n characters that are not quotes, backslashes, brackets or letters.
Fill(n) == [ch |-> ".", n |-> n, k |-> 0, val |-> Null]

RECURSIVE NumDigits(_)
NumDigits(v) == IF v < 10 THEN 1 ELSE 1 + NumDigits(v \div 10)

\* Length of the JSON text of a value.
JsonLen(v) ==
  CASE v.t = "num" -> NumDigits(v.n \div 10) + (IF v.n % 10 = 0 THEN 0 ELSE 2)
    [] v.t = "str" -> Len(v.s) + 2
    [] v.t = "dict" ->
         (IF v.date.t = "absent" THEN 0 ELSE 7 + Len(v.date.s) + 2)
         + (IF v.close.t = "absent" THEN 0
            ELSE 8 + (IF v.date.t = "absent" THEN 0 ELSE 1)
                   + (CASE v.close.t = "num" ->
                             NumDigits(v.close.n \div 10)
                             + (IF v.close.n % 10 = 0 THEN 0 ELSE 2)
                        [] v.close.t = "str" -> Len(v.close.s) + 2
                        [] OTHER -> 4))
         + 2
    [] OTHER -> 4

\* The text of the object v after its leading {"date": up to its closing
\* brace: it starts with the quote of the date value, holds no bracket or
\* backslash and an even number of quotes.
RestOf(v) == [ch |-> "rest", n |-> JsonLen(v) - 8, k |-> 1, val |-> v]
\* The text of k further array items ,v: no bracket or backslash, quotes
\* balanced.
ElemsOf(v, k) == [ch |-> "elems", n |-> k * (1 + JsonLen(v)), k |-> k, val |-> v]

Chars(cs) == [i \in 1..Len(cs) |-> C(cs[i])]

\* Number of characters of the runs lo..hi of text.
RECURSIVE CharCount(_, _, _)
CharCount(text, lo, hi) ==
  IF lo > hi THEN 0
  ELSE IF lo = hi THEN text[lo].n
  ELSE LET mid == (lo + hi) \div 2
       IN CharCount(text, lo, mid) + CharCount(text, mid + 1, hi)

\* len(text)
TextLen(text) == CharCount(text, 1, Len(text))

\* Offset of the first character of run i (0-based, as Python indexes).
Off(text, i) == CharCount(text, 1, i - 1)

\* The offsets of the runs lo..hi of text, the first of them being base.
RECURSIVE OffsetsFrom(_, _, _, _)
OffsetsFrom(text, lo, hi, base) ==
  IF lo > hi THEN <<>>
  ELSE IF lo = hi THEN <<base>>
  ELSE LET mid == (lo + hi) \div 2
           left == OffsetsFrom(text, lo, mid, base)
       IN left \o OffsetsFrom(text, mid + 1, hi, left[Len(left)] + text[mid].n)

\* offs[i] = Off(text, i) for every run of text.
Offsets(text) == OffsetsFrom(text, 1, Len(text), 0)


\* Does the character sequence pat occur at run i of text?
MatchAt(text, pat, i) ==
  /\ i + Len(pat) - 1 <= Len(text)
  /\ \A j \in 1..Len(pat) : text[i + j - 1].n = 1 /\ text[i + j - 1].ch = pat[j]

\* re.finditer(pat, text): run indices of the non-overlapping occurrences,
\* left to right.
RECURSIVE FindIter(_, _, _)
FindIter(text, pat, from) ==
  LET hits == {i \in from..Len(text) : MatchAt(text, pat, i)}
  IN IF hits = {} THEN <<>>
     ELSE LET first == CHOOSE i \in hits : \A j \in hits : i <= j
          IN <<first>> \o FindIter(text, pat, first + Len(pat))

\* text[start:end].find(pat): the run index of the first occurrence of pat
\* that lies wholly in the character range [start, end), or 0 (Python's -1).
Find(text, offs, pat, start, end) ==
  LET hits == {i \in 1..Len(text) :
                 /\ MatchAt(text, pat, i)
                 /\ offs[i] >= start
                 /\ offs[i] + Len(pat) <= end}
  IN IF hits = {} THEN 0 ELSE CHOOSE i \in hits : \A j \in hits : i <= j

\* ------------------------------------------------------------------------
\* parse_rsc_history: reassembly
\* ------------------------------------------------------------------------
Q == "\""
BS == "\\"

\* Number of consecutive backslashes that end right before run i.
RECURSIVE BackslashRun(_, _)
BackslashRun(text, i) ==
  IF i = 1 \/ text[i - 1].ch # BS THEN 0 ELSE 1 + BackslashRun(text, i - 1)

\* chunk.encode("utf-8").decode("unicode_escape") on the escapes that the
\* chunks hold: \" and \\ name one character, \a and \t a control character,
\* \x must be followed by hex digits, any other pair is kept as it is.
\* Returns [ok, text]; ok = FALSE is the decoding exception.
UnicodeEscape(chunk) ==
  LET n == Len(chunk)
      \* a backslash that opens an escape: an even number of backslashes
      \* stands right before it
      Opens(i) == chunk[i].ch = BS /\ BackslashRun(chunk, i) % 2 = 0
      Follows(i) == i > 1 /\ Opens(i - 1)
      Named(r) == r.n = 1 /\ r.ch \in {Q, BS, "a", "t"}
      ok == \A i \in 1..n : Opens(i) => (i < n /\ chunk[i + 1].ch # "x")
      piece(i) ==
        IF Opens(i) THEN (IF Named(chunk[i + 1]) THEN <<>> ELSE <<chunk[i]>>)
        ELSE IF Follows(i) /\ chunk[i].n = 1 /\ chunk[i].ch \in {"a", "t"}
             THEN <<Fill(1)>>
             ELSE <<chunk[i]>>
  IN IF ok THEN [ok |-> TRUE, text |-> Flatten([i \in 1..n |-> piece(i)])]
     ELSE [ok |-> FALSE, text |-> <<>>]

\* The loop over raw_chunks building full_rsc.
Reassemble(raw_chunks) ==
  Flatten([c \in 1..Len(raw_chunks) |->
             LET r == UnicodeEscape(raw_chunks[c])
             IN IF r.ok THEN r.text ELSE raw_chunks[c]])

\* ------------------------------------------------------------------------
\* parse_rsc_history: window, span scan, decoder
\* ------------------------------------------------------------------------
KNOWN_SYMBOLS ==
  << <<"B","N","B","L">>, <<"R","I","C","B">>, <<"G","I","C","B">>,
     <<"B","I","L">>, <<"T","B","L">>, <<"B","F","A","L">>,
     <<"B","C","C","L">>, <<"B","T","C","L">>, <<"B","P","C","L">>,
     <<"K","C","L">>, <<"B","B","P","L">>, <<"B","S","R","M">>,
     <<"D","P","N","B","L">>, <<"B","O","D","B">>,
     <<"S","T","C","B","L">>, <<"D","W","A","L">>, <<"B","F","S","L">>,
     <<"J","M","C","L">> >>

W_BEFORE == 5000
W_AFTER  == 30000
MIN_LEN  == 20

\* '"' + re.escape(symbol) + '"'
SymPattern(symbol) == <<Q>> \o symbol \o <<Q>>

\* [{"date":   and   [{"date" :
Prefix1 == <<"[", "{", Q, "d", "a", "t", "e", Q, ":">>
Prefix2 == <<"[", "{", Q, "d", "a", "t", "e", Q, " ", ":">>

Max(a, b) == IF a > b THEN a ELSE b
Min(a, b) == IF a < b THEN a ELSE b

\* The window of the occurrence at run m: character offsets [start, end).
\* offs is Offsets(text).
WindowStart(offs, m) == Max(0, offs[m] - W_BEFORE)
WindowEnd(text, offs, symbol, m) ==
  Min(offs[Len(text)] + text[Len(text)].n,
      offs[m] + Len(SymPattern(symbol)) + W_AFTER)

\* arr_idx: the run of the first array prefix in the window, 0 if none.
ArrIdx(text, offs, start, end) ==
  LET a == Find(text, offs, Prefix1, start, end)
  IN IF a # 0 THEN a ELSE Find(text, offs, Prefix2, start, end)

\* The body of the scan loop for one run of characters.
ScanStep(st, r) ==
  IF r.n = 1 /\ r.ch \notin {"rest", "elems"}
  THEN IF st.escape_next THEN [st EXCEPT !.escape_next = FALSE]
       ELSE IF r.ch = BS /\ st.in_str THEN [st EXCEPT !.escape_next = TRUE]
       ELSE LET ins == IF r.ch = Q THEN ~st.in_str ELSE st.in_str
            IN IF ins THEN [st EXCEPT !.in_str = ins]
               ELSE IF r.ch = "[" THEN [st EXCEPT !.in_str = ins, !.depth = @ + 1]
               ELSE IF r.ch = "]"
                    THEN [st EXCEPT !.in_str = ins, !.depth = @ - 1,
                                    !.found = (st.depth - 1 = 0)]
                    ELSE [st EXCEPT !.in_str = ins]
  ELSE IF r.ch = "rest" /\ st.escape_next
       \* the opening quote of the date value is skipped: the other quotes
       \* of the run are odd in number
       THEN [st EXCEPT !.escape_next = FALSE, !.in_str = ~@]
       ELSE [st EXCEPT !.escape_next = FALSE]

\* for ci, ch in enumerate(...) over the runs lo..hi in order, stopping at
\* the bracket that brings depth to 0 (split in halves to keep the
\* evaluation shallow).  at is the run of that bracket.
RECURSIVE ScanLoop(_, _, _, _)
ScanLoop(text, lo, hi, st) ==
  IF lo > hi \/ st.found THEN st
  ELSE IF lo = hi
       THEN LET st2 == ScanStep(st, text[lo])
            IN IF st2.found THEN [st2 EXCEPT !.at = lo] ELSE st2
  ELSE LET mid == (lo + hi) \div 2
       IN ScanLoop(text, mid + 1, hi, ScanLoop(text, lo, mid, st))

ScanInit == [depth |-> 0, in_str |-> FALSE, escape_next |-> FALSE, found |-> FALSE,
             at |-> 0]

\* The last run that starts inside the character range that ends at end.
LastRunBefore(offs, end) ==
  IF \E i \in 1..Len(offs) : offs[i] < end
  THEN CHOOSE i \in 1..Len(offs) :
         offs[i] < end /\ (i = Len(offs) \/ offs[i + 1] >= end)
  ELSE 0

\* The run index of the closing bracket of the span that starts at run
\* arr_idx, scanning window[arr_idx:]; 0 is arr_end <= arr_idx.
ScanSpan(text, offs, arr_idx, end) ==
  ScanLoop(text, arr_idx, LastRunBefore(offs, end), ScanInit).at

Copies(v, k) == [i \in 1..k |-> v]

\* The items that the runs of an array text stand for.
ItemsOf(runs) == Flatten([i \in 1..Len(runs) |-> Copies(runs[i].val, runs[i].k)])

\* json.loads(window[arr_idx:arr_end]) for spans of the form
\* [{"date":  rest  elems ...  ] ; any other text is a JSONDecodeError
\* (ok = FALSE).
JsonLoads(span) ==
  LET p == IF MatchAt(span, Prefix1, 1) THEN Len(Prefix1)
           ELSE IF MatchAt(span, Prefix2, 1) THEN Len(Prefix2) ELSE 0
  IN IF /\ p # 0
        /\ Len(span) >= p + 2
        /\ span[p + 1].ch = "rest"
        /\ span[Len(span)].ch = "]" /\ span[Len(span)].n = 1
        /\ \A j \in (p + 2)..(Len(span) - 1) : span[j].ch = "elems"
     THEN [ok |-> TRUE, arr |-> ItemsOf(SubSeq(span, p + 1, Len(span) - 1))]
     ELSE [ok |-> FALSE, arr |-> <<>>]

\* The acceptance test with the length compared by >= instead of >.
Accepts_AtLeast(arr) ==
  /\ Len(arr) >= MIN_LEN
  /\ arr[1].t = "dict"
  /\ arr[1].date.t # "absent"
  /\ arr[1].close.t # "absent"

\* The decoder's acceptance test on a parsed array.
Accepts(arr) ==
  /\ Len(arr) > MIN_LEN
  /\ arr[1].t = "dict"
  /\ arr[1].date.t # "absent"
  /\ arr[1].close.t # "absent"

\* ------------------------------------------------------------------------
\* Inputs of the normaliser
\* ------------------------------------------------------------------------
\* "2024-01-0d"
Ymd(d) == <<50, 48, 50, 52, 45, 48, 49, 45, 48, 48 + d>>
\* "T00:00:00"
Midnight == <<84, 48, 48, 58, 48, 48, 58, 48, 48>>
\* "11.0", "10.5", "n/a"
S110 == <<49, 49, 46, 48>>
S105 == <<49, 48, 46, 53>>
SNA  == <<110, 47, 97>>

DedupDates  == {Str(Ymd(4)), Str(Ymd(5)), Str(Ymd(5) \o Midnight), Absent}
DedupCloses == {Num(90), Num(0), Str(S110), Str(SNA), Absent}
DedupRecords == {Dict(d, c) : d \in DedupDates, c \in DedupCloses}

RECURSIVE SeqsUpTo(_, _)
SeqsUpTo(S, n) ==
  IF n = 0 THEN {<<>>}
  ELSE LET prev == SeqsUpTo(S, n - 1)
       IN prev \cup {Append(q, x) : q \in {p \in prev : Len(p) = n - 1}, x \in S}

VARIABLES d_pc, d_entries, d_result,
          s_pc, s_text, s_m, s_start, s_end, s_arr_run, s_arr_idx, s_arr_end,
          h_pc, h_histories, h_fiber, h_loaded, h_had_known, h_threw, h_fallback,
          h_result,
          p_html, p_text, p_sym, p_matches, p_mi, p_hist, p_log,
          k_pc, k_stocks, k_result,
          b_pc, b_result,
          n_pc, n_sel, n_news, n_seen, n_result,
          m_pc, m_bsi, m_stocks, m_histories, m_news, m_saved

dvars == <<d_pc, d_entries, d_result>>
svars == <<s_pc, s_text, s_m, s_start, s_end, s_arr_run, s_arr_idx, s_arr_end>>
hvars == <<h_pc, h_histories, h_fiber, h_loaded, h_had_known, h_threw, h_fallback,
           h_result>>
pvars == <<p_html, p_text, p_sym, p_matches, p_mi, p_hist, p_log>>
kvars == <<k_pc, k_stocks, k_result>>
bvars == <<b_pc, b_result>>
nvars == <<n_pc, n_sel, n_news, n_seen, n_result>>
mvars == <<m_pc, m_bsi, m_stocks, m_histories, m_news, m_saved>>
rvars == <<bvars, nvars, mvars>>
vars == <<dvars, svars, hvars, pvars, kvars, rvars>>

IdleDedup == d_pc = "idle" /\ d_entries = <<>> /\ d_result = <<>>
IdleScan ==
  /\ s_pc = "idle" /\ s_text = <<>> /\ s_m = 0 /\ s_start = 0 /\ s_end = 0
  /\ s_arr_run = 0 /\ s_arr_idx = 0 /\ s_arr_end = 0
IdleStocks == k_pc = "idle" /\ k_stocks = <<>> /\ k_result = <<>>
IdleBsi == b_pc = "idle" /\ b_result = Null
IdleNews ==
  /\ n_pc = "idle" /\ n_sel = 0 /\ n_news = <<>> /\ n_seen = {} /\ n_result = <<>>
IdleMain ==
  /\ m_pc = "idle" /\ m_bsi = Null /\ m_stocks = <<>> /\ m_histories = EmptyDict
  /\ m_news = <<>> /\ m_saved = {}
IdleRun == IdleBsi /\ IdleNews /\ IdleMain
IdleParse ==
  /\ p_html = <<>> /\ p_text = <<>> /\ p_sym = 0 /\ p_matches = <<>> /\ p_mi = 0
  /\ p_hist = EmptyDict /\ p_log = <<>>
IdleHistory ==
  /\ h_pc = "idle" /\ h_histories = EmptyDict /\ h_fiber = <<>>
  /\ h_loaded = FALSE /\ h_had_known = FALSE /\ h_threw = FALSE /\ h_fallback = 0
  /\ h_result = EmptyDict
  /\ IdleParse

InitDedup ==
  /\ d_pc = "call"
  /\ d_entries \in SeqsUpTo(DedupRecords, MaxEntries)
  /\ d_result = <<>>
  /\ IdleScan
  /\ IdleHistory
  /\ IdleStocks
  /\ IdleRun

DeduplicateDaily ==
  /\ d_pc = "call"
  /\ d_result' = deduplicate_daily(d_entries).out
  /\ d_pc' = "returned"
  /\ UNCHANGED <<d_entries, svars, hvars, pvars, kvars, rvars>>

NextDedup == DeduplicateDaily

SpecDedup == InitDedup /\ [][NextDedup]_vars

\* ------------------------------------------------------------------------
\* The span scan of one occurrence (the body of "for m in matches" up to
\* the test arr_end <= arr_idx)
\* ------------------------------------------------------------------------
BNBL == KNOWN_SYMBOLS[1]
RICB == KNOWN_SYMBOLS[2]

ScanChars == {C("["), C("]"), C(Q), C(BS), Fill(1), Fill(W_AFTER)}

ScanTexts ==
  {Chars(SymPattern(BNBL)) \o <<Fill(gap)>> \o Chars(Prefix1) \o body \o closer \o tail :
     gap \in {1, W_AFTER},
     body \in SeqsUpTo(ScanChars, MaxBody),
     closer \in {<<>>, <<C("]")>>},
     tail \in {<<>>, <<Fill(1)>>}}

InitScan ==
  /\ s_pc = "locate"
  /\ s_text \in ScanTexts
  /\ s_m \in {1}
  /\ s_start = 0 /\ s_end = 0 /\ s_arr_run = 0 /\ s_arr_idx = 0 /\ s_arr_end = 0
  /\ IdleDedup
  /\ IdleHistory
  /\ IdleStocks
  /\ IdleRun

\* start, end, window, arr_idx; "continue" when no prefix is in the window.
Locate ==
  /\ s_pc = "locate"
  /\ LET offs == Offsets(s_text)
         start == WindowStart(offs, s_m)
         end == WindowEnd(s_text, offs, BNBL, s_m)
         run == ArrIdx(s_text, offs, start, end)
     IN /\ s_start' = start
        /\ s_end' = end
        /\ s_arr_run' = run
        /\ s_arr_idx' = IF run = 0 THEN -1 ELSE Off(s_text, run) - start
        /\ s_pc' = IF run = 0 THEN "skipped" ELSE "scan"
  /\ UNCHANGED <<s_text, s_m, s_arr_end, dvars, hvars, pvars, kvars, rvars>>

\* The scan for the matching closing bracket; arr_end stays at arr_idx when
\* the window ends before depth returns to 0.
Scan ==
  /\ s_pc = "scan"
  /\ LET close == ScanSpan(s_text, Offsets(s_text), s_arr_run, s_end)
     IN s_arr_end' = IF close = 0 THEN s_arr_idx
                     ELSE Off(s_text, close) + 1 - s_start
  /\ s_pc' = "scanned"
  /\ UNCHANGED <<s_text, s_m, s_start, s_end, s_arr_run, s_arr_idx, dvars, hvars, pvars, kvars, rvars>>

NextScan == Locate \/ Scan

SpecScan == InitScan /\ [][NextScan]_vars

\* ------------------------------------------------------------------------
\* parse_rsc_history
\* ------------------------------------------------------------------------
\* The body of "for m in matches" for the occurrence at run m: what the
\* iteration ends in, the length of the parsed array and the series.
\*   no_prefix     continue, no array prefix in the window
\*   no_span       continue, arr_end <= arr_idx
\*   decode_error  continue, json.JSONDecodeError
\*   rejected      the acceptance test fails
\*   empty         accepted, deduplicate_daily returned an empty list
\*   stored        histories[symbol] = daily; break
\*   raised        deduplicate_daily raised, which no handler here catches
Candidate(text, symbol, m) ==
  LET offs == Offsets(text)
      start == WindowStart(offs, m)
      end == WindowEnd(text, offs, symbol, m)
      arr_idx == ArrIdx(text, offs, start, end)
      none(o) == [outcome |-> o, len |-> 0, daily |-> <<>>]
  IN IF arr_idx = 0 THEN none("no_prefix")
     ELSE LET close == ScanSpan(text, offs, arr_idx, end)
          IN IF close = 0 THEN none("no_span")
             ELSE LET parsed == JsonLoads(SubSeq(text, arr_idx, close))
                  IN IF ~parsed.ok THEN none("decode_error")
                     ELSE IF ~Accepts(parsed.arr)
                          THEN [outcome |-> "rejected", len |-> Len(parsed.arr),
                                daily |-> <<>>]
                          ELSE LET r == deduplicate_daily(parsed.arr)
                               IN [outcome |-> IF r.raised THEN "raised"
                                               ELSE IF r.out = <<>> THEN "empty"
                                               ELSE "stored",
                                   len |-> Len(parsed.arr),
                                   daily |-> r.out]

\* d[k] = v on a Python dict.
DictSet(d, k, v) == [x \in (DOMAIN d) \cup {k} |-> IF x = k THEN v ELSE d[x]]

\* raw_chunks = re.findall(...): the page source is given as the bodies of
\* its self.__next_f.push([1,"..."]) calls.  No chunk: return {}.
ParseStart ==
  /\ h_pc = "p_start"
  /\ IF p_html = <<>>
     THEN /\ h_histories' = EmptyDict
          /\ h_result' = EmptyDict
          /\ h_pc' = "returned"
          /\ UNCHANGED <<p_text, p_sym>>
     ELSE /\ p_text' = Reassemble(p_html)
          /\ p_sym' = 1
          /\ h_pc' = "p_symbol"
          /\ UNCHANGED <<h_histories, h_result>>
  /\ p_hist' = EmptyDict
  /\ UNCHANGED <<p_html, p_matches, p_mi, p_log, h_fiber, h_loaded, h_had_known,
                 h_threw, h_fallback, dvars, svars, kvars, rvars>>

\* for symbol in KNOWN_SYMBOLS: matches = list(finditer); no match: continue.
ParseSymbol ==
  /\ h_pc = "p_symbol"
  /\ p_sym <= Len(KNOWN_SYMBOLS)
  /\ LET matches == FindIter(p_text, SymPattern(KNOWN_SYMBOLS[p_sym]), 1)
     IN IF matches = <<>>
        THEN /\ p_sym' = p_sym + 1
             /\ UNCHANGED <<p_matches, p_mi, h_pc>>
        ELSE /\ p_matches' = matches
             /\ p_mi' = 1
             /\ h_pc' = "p_occurrence"
             /\ UNCHANGED p_sym
  /\ UNCHANGED <<p_html, p_text, p_hist, p_log, h_histories, h_fiber, h_loaded,
                 h_had_known, h_threw, h_fallback, h_result, dvars, svars, kvars, rvars>>

\* The loop control without the break after a stored series.
LoopControl_NoBreak(outcome, mi, n) ==
  IF outcome = "raised" THEN "raise"
  ELSE IF mi < n THEN "next"
  ELSE "exhausted"

\* What follows the iteration for occurrence mi of n: the exception, the
\* break after a stored series, the next occurrence, or the end of the loop.
LoopControl(outcome, mi, n) ==
  IF outcome = "raised" THEN "raise"
  ELSE IF outcome = "stored" THEN "break"
  ELSE IF mi < n THEN "next"
  ELSE "exhausted"

\* One iteration of "for m in matches".
ParseOccurrence ==
  /\ h_pc = "p_occurrence"
  /\ LET symbol == KNOWN_SYMBOLS[p_sym]
         c == Candidate(p_text, symbol, p_matches[p_mi])
         ctl == LoopControl(c.outcome, p_mi, Len(p_matches))
     IN /\ p_log' = Append(p_log, [sym |-> p_sym, occ |-> p_mi,
                                   outcome |-> c.outcome, len |-> c.len])
        /\ p_hist' = IF c.outcome = "stored"
                     THEN DictSet(p_hist, symbol, c.daily) ELSE p_hist
        /\ CASE ctl = "raise" ->
                  \* the exception leaves parse_rsc_history; scrape_history
                  \* catches it and returns its own histories
                  /\ h_result' = h_histories
                  /\ h_pc' = "returned"
                  /\ UNCHANGED <<p_sym, p_mi>>
             [] ctl = "next" ->
                  /\ p_mi' = p_mi + 1
                  /\ UNCHANGED <<p_sym, h_pc, h_result>>
             [] OTHER ->
                  /\ p_sym' = p_sym + 1
                  /\ h_pc' = "p_symbol"
                  /\ UNCHANGED <<h_result, p_mi>>
  /\ UNCHANGED <<p_html, p_text, p_matches, h_histories, h_fiber, h_loaded,
                 h_had_known, h_threw, h_fallback, dvars, svars, kvars, rvars>>

\* return histories, assigned by the caller and returned by it.
ParseReturn ==
  /\ h_pc = "p_symbol"
  /\ p_sym > Len(KNOWN_SYMBOLS)
  /\ h_histories' = p_hist
  /\ h_result' = p_hist
  /\ h_pc' = "returned"
  /\ UNCHANGED <<pvars, h_fiber, h_loaded, h_had_known, h_threw, h_fallback, dvars,
                 svars, kvars, rvars>>

\* ------------------------------------------------------------------------
\* scrape_history
\* ------------------------------------------------------------------------
IsKnown(sym) == \E i \in 1..Len(KNOWN_SYMBOLS) : KNOWN_SYMBOLS[i] = sym
SYM_MAX == 6

\* page.goto(BASE_URL, wait_until="networkidle"): on a timeout the second
\* goto is tried.
HistoryGoto ==
  /\ h_pc = "goto"
  /\ \E timeout \in BOOLEAN :
       /\ h_pc' = IF timeout THEN "goto2" ELSE "evaluate"
       /\ h_loaded' = ~timeout
  /\ UNCHANGED <<h_histories, h_fiber, h_had_known, h_threw, h_fallback, h_result,
                 pvars, dvars, svars, kvars, rvars>>

\* page.goto(BASE_URL, wait_until="domcontentloaded"): on a timeout
\* "Could not load homepage", return histories.
HistoryGoto2 ==
  /\ h_pc = "goto2"
  /\ \E timeout \in BOOLEAN :
       /\ IF timeout
          THEN h_pc' = "returned" /\ h_result' = h_histories
          ELSE h_pc' = "evaluate" /\ UNCHANGED h_result
       /\ h_loaded' = ~timeout
  /\ UNCHANGED <<h_histories, h_fiber, h_had_known, h_threw, h_fallback,
                 pvars, dvars, svars, kvars, rvars>>

\* fiber_result = page.evaluate(...): it throws, or returns null, or a
\* mapping (given as its items in iteration order).
HistoryEvaluate(FiberResults) ==
  /\ h_pc = "evaluate"
  /\ \/ /\ h_threw' = TRUE
        /\ h_pc' = "check"
        /\ UNCHANGED <<h_fiber, h_had_known>>
     \/ \E fr \in FiberResults :
          /\ h_fiber' = fr
          /\ h_had_known' = \E i \in 1..Len(fr) : IsKnown(fr[i].sym)
          /\ h_pc' = IF fr = <<>> THEN "check" ELSE "items"
          /\ UNCHANGED h_threw
  /\ UNCHANGED <<h_histories, h_loaded, h_fallback, h_result, pvars, dvars, svars, kvars, rvars>>

\* One iteration of "for sym, arr in fiber_result.items()".
HistoryItem ==
  /\ h_pc = "items"
  /\ LET it == Head(h_fiber)
         r == deduplicate_daily(it.arr)
     IN IF IsKnown(it.sym) \/ Len(it.sym) <= SYM_MAX
        THEN IF r.raised
             THEN /\ h_threw' = TRUE
                  /\ h_pc' = "check"
                  /\ UNCHANGED <<h_histories, h_fiber>>
             ELSE /\ h_histories' = DictSet(h_histories, it.sym, r.out)
                  /\ h_fiber' = Tail(h_fiber)
                  /\ h_pc' = IF Tail(h_fiber) = <<>> THEN "check" ELSE "items"
                  /\ UNCHANGED h_threw
        ELSE /\ h_fiber' = Tail(h_fiber)
             /\ h_pc' = IF Tail(h_fiber) = <<>> THEN "check" ELSE "items"
             /\ UNCHANGED <<h_histories, h_threw>>
  /\ UNCHANGED <<h_loaded, h_had_known, h_fallback, h_result, pvars, dvars, svars, kvars, rvars>>

\* if histories: return histories
HistoryCheck ==
  /\ h_pc = "check"
  /\ IF DOMAIN h_histories # {}
     THEN h_pc' = "returned" /\ h_result' = h_histories
     ELSE h_pc' = "content" /\ UNCHANGED h_result
  /\ UNCHANGED <<h_histories, h_fiber, h_loaded, h_had_known, h_threw, h_fallback,
                 pvars, dvars, svars, kvars, rvars>>

\* The fallback: html = page.content(); histories = parse_rsc_history(html).
\* When page.content() throws, histories is returned as it is.  h_fallback
\* counts the entries into the fallback.
HistoryContent(Htmls) ==
  /\ h_pc = "content"
  /\ h_fallback' = h_fallback + 1
  /\ \/ /\ h_pc' = "returned"
        /\ h_result' = h_histories
        /\ UNCHANGED p_html
     \/ \E html \in Htmls :
          /\ p_html' = html
          /\ h_pc' = "p_start"
          /\ UNCHANGED h_result
  /\ UNCHANGED <<h_histories, h_fiber, h_loaded, h_had_known, h_threw,
                 p_text, p_sym, p_matches, p_mi, p_hist, p_log, dvars, svars, kvars, rvars>>

NextParse == ParseStart \/ ParseSymbol \/ ParseOccurrence \/ ParseReturn

\* ------------------------------------------------------------------------
\* Page sources
\* ------------------------------------------------------------------------
D4 == Str(Ymd(4))
D5 == Str(Ymd(5))

\* [{"date":  first  ,item ... ,item ]   with len items in all
ArrayText(prefix, first, item, len, closer) ==
  Chars(prefix) \o <<RestOf(first), ElemsOf(item, len - 1)>> \o closer

Closed == <<C("]")>>

\* The array texts a block may hold, by name.
ArrayOf(kind) ==
  CASE kind = "good_a" ->
         ArrayText(Prefix1, Dict(D4, Num(90)), Dict(D5, Str(S110)), MIN_LEN + 1, Closed)
    [] kind = "good_b" ->
         ArrayText(Prefix1, Dict(D4, Num(70)), Dict(D5, Str(S105)), MIN_LEN + 1, Closed)
    [] kind = "spaced" ->
         ArrayText(Prefix2, Dict(D5, Num(70)), Dict(D4, Num(90)), MIN_LEN + 2, Closed)
    [] kind = "min_len" ->
         ArrayText(Prefix1, Dict(D4, Num(90)), Dict(D5, Str(S110)), MIN_LEN, Closed)
    [] kind = "short" ->
         ArrayText(Prefix1, Dict(D4, Num(90)), Dict(D5, Str(S110)), MIN_LEN - 1, Closed)
    [] kind = "no_close" ->
         ArrayText(Prefix1, Dict(D4, Absent), Dict(D5, Str(S110)), MIN_LEN + 1, Closed)
    [] kind = "no_number" ->
         ArrayText(Prefix1, Dict(D4, Str(SNA)), Dict(D5, Null), MIN_LEN + 1, Closed)
    [] kind = "non_dict" ->
         ArrayText(Prefix1, Dict(D4, Num(90)), Num(50), MIN_LEN + 1, Closed)
    [] kind = "malformed" ->
         Chars(Prefix1) \o <<RestOf(Dict(D4, Num(90))), Fill(1)>> \o Closed
    [] kind = "unclosed" ->
         ArrayText(Prefix1, Dict(D4, Num(90)), Dict(D5, Str(S110)), MIN_LEN + 1, <<>>)
    [] kind = "long" ->
         ArrayText(Prefix1, Dict(D4, Num(90)), Dict(D5, Str(S110)), W_AFTER \div 20, Closed)

\* lead characters, the quoted symbol, gap characters, the array.
Block(lead, symbol, gap, kind) ==
  <<Fill(lead)>> \o Chars(SymPattern(symbol)) \o <<Fill(gap)>> \o ArrayOf(kind)

ParseKinds == {"good_a", "good_b", "spaced", "min_len", "short", "no_close",
               "no_number", "non_dict", "malformed", "unclosed", "long"}

\* The first block of a page and the blocks that may follow it.
FirstBlocks ==
  {Block(1, BNBL, 1, k) : k \in ParseKinds}
  \cup {Block(1, BNBL, W_AFTER, "good_a")}

LaterBlocks ==
  {Block(W_BEFORE, BNBL, 1, k) : k \in {"good_b", "min_len"}}
  \cup {Block(1, BNBL, 1, "good_b")}
  \cup {Block(W_BEFORE, RICB, 1, "good_b")}

ParseTexts ==
  {b \o Flatten(bs) : b \in FirstBlocks, bs \in SeqsUpTo(LaterBlocks, MaxBlocks - 1)}

\* The text as it stands inside the string literal of a push call.
Escape(text) ==
  Flatten([i \in 1..Len(text) |->
             IF text[i].ch \in {Q, BS} /\ text[i].n = 1
             THEN <<C(BS), text[i]>> ELSE <<text[i]>>])

\* A chunk whose escapes do not decode: \x followed by no hex digit.
BadChunk == <<C(BS), C("x"), Fill(1)>>

\* The chunk bodies of a page that streams text: in one push, in two, or
\* after a chunk that fails to decode.
OneChunk(text) == <<Escape(text)>>
TwoChunks(text) ==
  <<Escape(SubSeq(text, 1, Len(text) \div 2)),
    Escape(SubSeq(text, Len(text) \div 2 + 1, Len(text)))>>
AfterBadChunk(text) == <<BadChunk, Escape(text)>>

ParseHtmls ==
  {<<>>} \cup {OneChunk(t) : t \in ParseTexts}
         \cup {TwoChunks(t) : t \in FirstBlocks}
         \cup {AfterBadChunk(t) : t \in FirstBlocks}

InitParse ==
  /\ IdleDedup /\ IdleScan /\ IdleStocks /\ IdleRun
  /\ h_pc = "p_start" /\ h_histories = EmptyDict /\ h_fiber = <<>>
  /\ h_loaded = TRUE /\ h_had_known = FALSE /\ h_threw = FALSE /\ h_fallback = 1
  /\ h_result = EmptyDict
  /\ p_html \in ParseHtmls
  /\ p_text = <<>> /\ p_sym = 0 /\ p_matches = <<>> /\ p_mi = 0
  /\ p_hist = EmptyDict /\ p_log = <<>>

SpecParse == InitParse /\ [][NextParse]_vars

\* ------------------------------------------------------------------------
\* Results of the fiber evaluation
\* ------------------------------------------------------------------------
\* The page script keeps arrays of more than 10 items whose first item is
\* an object with a truthy date and a truthy close.
FIBER_MIN == 10

FiberArray(kind) ==
  CASE kind = "prices" ->
         <<Dict(D4, Num(90))>> \o Copies(Dict(D5, Str(S110)), FIBER_MIN)
    [] kind = "no_number" ->
         <<Dict(D4, Str(SNA))>> \o Copies(Dict(D5, Str(SNA)), FIBER_MIN)
    [] kind = "with_null" ->
         <<Dict(D4, Num(70))>> \o Copies(Null, FIBER_MIN)

XYZ == <<"X", "Y", "Z">>
LONGSYM == <<"L", "O", "N", "G", "S", "Y", "M">>

FiberItems ==
  {[sym |-> sy, arr |-> FiberArray(k)] :
     sy \in {BNBL, RICB, XYZ, LONGSYM}, k \in {"prices", "no_number", "with_null"}}

FiberResults ==
  {fr \in SeqsUpTo(FiberItems, MaxFiber) :
     \A i, j \in 1..Len(fr) : i # j => fr[i].sym # fr[j].sym}

\* Page sources of the history run.
HistoryHtmls ==
  {<<>>}
  \cup {OneChunk(Block(1, BNBL, 1, k)) : k \in ParseKinds}
  \cup {TwoChunks(Block(1, BNBL, 1, k1) \o Block(W_BEFORE, RICB, 1, k2)) :
          k1 \in {"good_a", "short"}, k2 \in {"good_b", "min_len", "non_dict"}}

InitHistory ==
  /\ IdleDedup /\ IdleScan /\ IdleParse /\ IdleStocks /\ IdleRun
  /\ h_pc = "goto" /\ h_histories = EmptyDict /\ h_fiber = <<>>
  /\ h_loaded = FALSE /\ h_had_known = FALSE /\ h_threw = FALSE /\ h_fallback = 0
  /\ h_result = EmptyDict

NextHistory ==
  \/ HistoryGoto
  \/ HistoryGoto2
  \/ HistoryEvaluate(FiberResults)
  \/ HistoryItem
  \/ HistoryCheck
  \/ HistoryContent(HistoryHtmls)
  \/ NextParse

SpecHistory == InitHistory /\ [][NextHistory]_vars

\* ------------------------------------------------------------------------
\* scrape_stocks
\* ------------------------------------------------------------------------
\* texts[k] if len(texts) > k else None, as parse_number leaves it.
Cell(texts, k) == IF Len(texts) >= k THEN parse_number(texts[k]) ELSE Null

MIN_CELLS == 5

\* The dict appended for a row with the cell texts given.
StockRow(texts) ==
  [symbol |-> Str(texts[1]), name |-> Str(texts[2]),
   pe_ratio |-> Cell(texts, 3), price |-> Cell(texts, 4), change |-> Cell(texts, 5),
   change_pct |-> Cell(texts, 6), volume |-> Cell(texts, 7), value |-> Cell(texts, 8),
   market_cap |-> Cell(texts, 9)]

\* for row in rows: the dicts appended, in order.
RowsToStocks(rows) ==
  Flatten([r \in 1..Len(rows) |->
             LET texts == [c \in 1..Len(rows[r]) |-> Strip(rows[r][c])]
             IN IF Len(texts) < MIN_CELLS \/ texts[1] = <<>> THEN <<>>
                ELSE <<StockRow(texts)>>])

\* page.goto(BASE_URL/screener): a timeout is not caught here.
StocksGoto ==
  /\ k_pc = "goto"
  /\ \E timeout \in BOOLEAN : k_pc' = IF timeout THEN "raised" ELSE "wait_table"
  /\ UNCHANGED <<k_stocks, k_result, dvars, svars, hvars, pvars, rvars>>

\* wait_for_table(page): on a timeout return stocks.
StocksWaitTable ==
  /\ k_pc = "wait_table"
  /\ \E timeout \in BOOLEAN :
       IF timeout THEN k_pc' = "returned" /\ k_result' = k_stocks
       ELSE k_pc' = "rows" /\ UNCHANGED k_result
  /\ UNCHANGED <<k_stocks, dvars, svars, hvars, pvars, rvars>>

\* rows = page.query_selector_all("table tbody tr") and the loop over rows.
StocksRows(Pages) ==
  /\ k_pc = "rows"
  /\ \E rows \in Pages :
       /\ Len(k_stocks) + Len(RowsToStocks(rows)) <= MaxStocks
       /\ k_stocks' = k_stocks \o RowsToStocks(rows)
  /\ k_pc' = "next"
  /\ UNCHANGED <<k_result, dvars, svars, hvars, pvars, rvars>>

\* next_btn = page.query_selector(...): absent, disabled or enabled; an
\* enabled button is clicked, otherwise break.
StocksNext ==
  /\ k_pc = "next"
  /\ \E next_btn \in {"none", "disabled", "enabled"} :
       IF next_btn = "enabled"
       THEN k_pc' = "settle" /\ UNCHANGED k_result
       ELSE k_pc' = "returned" /\ k_result' = k_stocks
  /\ UNCHANGED <<k_stocks, dvars, svars, hvars, pvars, rvars>>

\* wait_for_load_state("networkidle") and wait_for_table: a timeout of
\* either breaks the loop, otherwise the loop goes round.
StocksSettle ==
  /\ k_pc = "settle"
  /\ \E idle_timeout \in BOOLEAN, table_timeout \in BOOLEAN :
       IF idle_timeout \/ table_timeout
       THEN k_pc' = "returned" /\ k_result' = k_stocks
       ELSE k_pc' = "rows" /\ UNCHANGED k_result
  /\ UNCHANGED <<k_stocks, dvars, svars, hvars, pvars, rvars>>

\* Rows of the screener table, as cell texts.
RowFull == <<<<66, 78, 66, 76>>, <<66, 78, 66>>, <<57, 46, 53>>, <<78, 117, 46, 32, 53, 48, 48>>, <<45, 49, 46, 53>>, <<50, 37>>,
             <<49, 44, 50, 51, 52>>, <<78, 47, 65>>, <<>>>>
RowFive == <<<<82, 73, 67, 66>>, <<66, 78, 66>>, <<>>, <<57, 46, 53>>, <<32, 48, 32>>>>
RowShort == <<<<66, 78, 66, 76>>, <<66, 78, 66>>, <<57, 46, 53>>>>
RowBlank == <<<<32>>, <<66, 78, 66>>, <<57, 46, 53>>, <<57, 46, 53>>, <<57, 46, 53>>>>

StockPages == {<<RowShort>>, <<RowFull>>, <<RowFive>>, <<RowFull, RowFive>>,
               <<RowBlank, RowFive>>}

InitStocks ==
  /\ IdleDedup /\ IdleScan /\ IdleHistory /\ IdleRun
  /\ k_pc = "goto" /\ k_stocks = <<>> /\ k_result = <<>>

NextStocks ==
  \/ StocksGoto
  \/ StocksWaitTable
  \/ StocksRows(StockPages)
  \/ StocksNext
  \/ StocksSettle

SpecStocks == InitStocks /\ [][NextStocks]_vars

\* The interpreter runs the function to its end: a step that can be taken
\* is taken.
FairStocks == SpecStocks /\ WF_vars(NextStocks)

\* ------------------------------------------------------------------------
\* scrape_bsi
\* ------------------------------------------------------------------------
\* page.goto(BASE_URL): a timeout is not caught here.
BsiGoto ==
  /\ b_pc = "goto"
  /\ \E timeout \in BOOLEAN : b_pc' = IF timeout THEN "raised" ELSE "wait_body"
  /\ UNCHANGED <<b_result, nvars, mvars, dvars, svars, hvars, pvars, kvars>>

\* page.wait_for_selector("body"): on a timeout return None.
BsiWaitBody ==
  /\ b_pc = "wait_body"
  /\ \E timeout \in BOOLEAN :
       IF timeout THEN b_pc' = "returned" /\ b_result' = Null
       ELSE b_pc' = "search" /\ UNCHANGED b_result
  /\ UNCHANGED <<nvars, mvars, dvars, svars, hvars, pvars, kvars>>

\* The search of the page: pg.group is what the pattern captures in the
\* page source (<<>>: no match), pg.el tells whether an element with the
\* text BSI exists and pg.nums are the numbers found in its text.
BsiSearch(BsiPages) ==
  /\ b_pc = "search"
  /\ \E pg \in BsiPages :
       b_result' = IF pg.group # <<>> THEN parse_number(pg.group)
                   ELSE IF pg.el /\ pg.nums # <<>> THEN parse_number(pg.nums[1])
                   ELSE Null
  /\ b_pc' = "returned"
  /\ UNCHANGED <<nvars, mvars, dvars, svars, hvars, pvars, kvars>>

BsiPageSet ==
  {[group |-> g, el |-> e, nums |-> ns] :
     g \in {<<>>, <<49, 44, 50, 51, 52, 46, 53>>, <<44>>}, e \in BOOLEAN, ns \in {<<>>, <<<<57, 46, 53>>>>}}

NextBsi == BsiGoto \/ BsiWaitBody \/ BsiSearch(BsiPageSet)

\* ------------------------------------------------------------------------
\* scrape_news
\* ------------------------------------------------------------------------
BASE_URL == <<104, 116, 116, 112, 115, 58, 47, 47, 114, 115, 101, 98, 108, 46, 111, 114, 103, 46, 98, 116>>
NUM_SELECTORS == 7
ITEMS_MAX == 30
TITLE_MAX == 150
TITLE_MIN == 5
NEWS_ENOUGH == 5
NEWS_MAX == 40
LINKS_MAX == 50
LINK_MIN == 10

Take(q, n) == SubSeq(q, 1, Min(Len(q), n))

StartsWith(cs, pre) == Len(cs) >= Len(pre) /\ SubSeq(cs, 1, Len(pre)) = pre

\* (BASE_URL + href) if href.startswith("/") else href; None without href.
UrlOf(href) ==
  IF ~Truthy(href) THEN Null
  ELSE IF StartsWith(href.s, <<47>>) THEN Str(BASE_URL \o href.s) ELSE href

\* The title of an item: the text of its heading or link if it has one,
\* else the first characters of its own text.
TitleOf(item) ==
  Strip(IF item.title_el # Null THEN Strip(item.title_el.s)
        ELSE Take(Strip(item.text), TITLE_MAX))

\* date_el.get_attribute("datetime") or date_el.inner_text().strip()
DateOf(item) ==
  IF ~item.date_el THEN Null
  ELSE IF Truthy(item.datetime) THEN item.datetime
  ELSE Str(Strip(item.date_text))

\* The test of the loop over items[:30] for the i-th item: its title is
\* longer than 5 characters and not in seen, which by then holds the titles
\* seen before the loop and those added for earlier items.
NewsItemFresh(seen, items, i) ==
  LET title == TitleOf(items[i])
  IN /\ title # <<>>
     /\ Len(title) > TITLE_MIN
     /\ title \notin seen
     /\ \A j \in 1..(i - 1) : TitleOf(items[j]) # title

\* The loop over items[:30]: acc = [news, seen].
NewsItems(acc, items) ==
  LET fresh == {i \in 1..Len(items) : NewsItemFresh(acc.seen, items, i)}
  IN [news |-> acc.news \o
                 Flatten([i \in 1..Len(items) |->
                            IF i \in fresh
                            THEN <<[title |-> Str(TitleOf(items[i])),
                                    date |-> DateOf(items[i]),
                                    url |-> UrlOf(items[i].href)]>>
                            ELSE <<>>]),
      seen |-> acc.seen \cup {TitleOf(items[i]) : i \in fresh}]

\* "http"
HTTP == <<104, 116, 116, 112>>

\* link.get_attribute("href") or ""
HrefOf(link) == IF Truthy(link.href) THEN link.href.s ELSE <<>>

\* The test of the loop over links[:50] for the i-th link.
NewsLinkFresh(seen, links, i) ==
  LET text == Strip(links[i].text)
  IN /\ Len(text) > LINK_MIN
     /\ text \notin seen
     /\ ~StartsWith(HrefOf(links[i]), HTTP)
     /\ \A j \in 1..(i - 1) :
          Strip(links[j].text) = text => StartsWith(HrefOf(links[j]), HTTP)

\* The loop over links[:50] of the fallback.
NewsLinks(acc, links) ==
  LET fresh == {i \in 1..Len(links) : NewsLinkFresh(acc.seen, links, i)}
  IN [news |-> acc.news \o
                 Flatten([i \in 1..Len(links) |->
                            IF i \in fresh
                            THEN <<[title |-> Str(Strip(links[i].text)),
                                    date |-> Null,
                                    url |-> Str(IF StartsWith(HrefOf(links[i]), <<47>>)
                                                THEN BASE_URL \o HrefOf(links[i])
                                                ELSE HrefOf(links[i]))]>>
                            ELSE <<>>]),
      seen |-> acc.seen \cup {Strip(links[i].text) : i \in fresh}]

\* page.goto(BASE_URL/news-and-announcements): a timeout is not caught here.
NewsGoto ==
  /\ n_pc = "goto"
  /\ \E timeout \in BOOLEAN : n_pc' = IF timeout THEN "raised" ELSE "wait"
  /\ UNCHANGED <<n_sel, n_news, n_seen, n_result, bvars, mvars, dvars, svars, hvars,
                 pvars, kvars>>

\* wait_for_selector("body") and wait_for_timeout: a timeout is passed over.
NewsWait ==
  /\ n_pc = "wait"
  /\ \E timeout \in BOOLEAN : n_pc' = "selectors"
  /\ n_sel' = 1
  /\ n_news' = <<>>
  /\ n_seen' = {}
  /\ UNCHANGED <<n_result, bvars, mvars, dvars, svars, hvars, pvars, kvars>>

\* One iteration of "for sel in selectors": the items of the selector, then
\* break when 5 news are there.
NewsSelector(ItemLists) ==
  /\ n_pc = "selectors"
  /\ \E items \in ItemLists :
       LET its == Take(items, ITEMS_MAX)
           acc == NewsItems([news |-> n_news, seen |-> n_seen], its)
       IN /\ n_news' = acc.news
          /\ n_seen' = acc.seen
          /\ IF Len(acc.news) >= NEWS_ENOUGH \/ n_sel = NUM_SELECTORS
             THEN n_pc' = "fallback" /\ UNCHANGED n_sel
             ELSE n_sel' = n_sel + 1 /\ UNCHANGED n_pc
  /\ UNCHANGED <<n_result, bvars, mvars, dvars, svars, hvars, pvars, kvars>>

\* if not news: the links of the page; return news[:40].
NewsFallback(LinkLists) ==
  /\ n_pc = "fallback"
  /\ \E links \in LinkLists :
       LET ls == Take(links, LINKS_MAX)
           acc == IF n_news = <<>>
                  THEN NewsLinks([news |-> n_news, seen |-> n_seen], ls)
                  ELSE [news |-> n_news, seen |-> n_seen]
       IN /\ n_news' = acc.news
          /\ n_seen' = acc.seen
          /\ n_result' = Take(acc.news, NEWS_MAX)
  /\ n_pc' = "returned"
  /\ UNCHANGED <<n_sel, bvars, mvars, dvars, svars, hvars, pvars, kvars>>

\* Items and links of the news page.
NewsTitle(d) == <<78, 101, 119, 115, 32>> \o <<48 + d>>
Item(d) ==
  [title_el |-> Str(NewsTitle(d) \o <<32>>), text |-> <<>>, date_el |-> TRUE,
   datetime |-> Null, date_text |-> Ymd(d), href |-> Str(<<47, 110, 47, 49>>)]
BareItem ==
  [title_el |-> Null, text |-> <<78, 111, 116, 105, 99, 101, 32, 111, 102, 32, 109, 101, 101, 116, 105, 110, 103>>, date_el |-> FALSE,
   datetime |-> Null, date_text |-> <<>>, href |-> Null]
ShortItem ==
  [title_el |-> Str(<<72, 105>>), text |-> <<>>, date_el |-> TRUE,
   datetime |-> Str(Ymd(4)), date_text |-> <<>>, href |-> Str(HTTP)]

NewsItemLists ==
  {<<>>, <<Item(1), ShortItem>>, <<Item(1), BareItem>>,
   <<Item(1), Item(2), Item(3), Item(4), Item(5)>>,
   Copies(Item(2), ITEMS_MAX) \o <<Item(3)>>}

NewsLinkLists ==
  {<<>>,
   <<[text |-> <<65, 110, 110, 117, 97, 108, 32, 114, 101, 112, 111, 114, 116>>, href |-> Str(<<47, 110, 47, 49>>)],
     [text |-> <<65, 110, 110, 117, 97, 108, 32, 114, 101, 112, 111, 114, 116>>, href |-> Null],
     [text |-> <<78, 111, 116, 105, 99, 101, 32, 111, 102, 32, 109, 101, 101, 116, 105, 110, 103>>, href |-> Str(HTTP)],
     [text |-> <<72, 105>>, href |-> Null]>>}

NextNews ==
  NewsGoto \/ NewsWait \/ NewsSelector(NewsItemLists) \/ NewsFallback(NewsLinkLists)

\* ------------------------------------------------------------------------
\* main
\* ------------------------------------------------------------------------
STOCKS_JSON == "stocks.json"
HISTORY_JSON == "history.json"
NEWS_JSON == "news.json"

\* save_json(filename, data): the document is written.
save_json(filename) == m_saved' = m_saved \cup {filename}

\* The browser is launched and a page opened; scrape_bsi(page) is called.
MainLaunch ==
  /\ m_pc = "launch"
  /\ m_pc' = "bsi"
  /\ b_pc' = "goto"
  /\ UNCHANGED <<b_result, m_bsi, m_stocks, m_histories, m_news, m_saved, nvars,
                 dvars, svars, hvars, pvars, kvars>>

\* bsi = scrape_bsi(page); scrape_stocks(page) is called.
MainBsi ==
  /\ m_pc = "bsi" /\ b_pc = "returned"
  /\ m_bsi' = b_result
  /\ b_pc' = "idle" /\ b_result' = Null
  /\ m_pc' = "stocks"
  /\ k_pc' = "goto"
  /\ UNCHANGED <<k_stocks, k_result, m_stocks, m_histories, m_news, m_saved, nvars,
                 dvars, svars, hvars, pvars>>

\* stocks = scrape_stocks(page); scrape_history(page) is called.
MainStocks ==
  /\ m_pc = "stocks" /\ k_pc = "returned"
  /\ m_stocks' = k_result
  /\ k_pc' = "idle" /\ k_stocks' = <<>> /\ k_result' = <<>>
  /\ m_pc' = "history"
  /\ h_pc' = "goto"
  /\ UNCHANGED <<h_histories, h_fiber, h_loaded, h_had_known, h_threw, h_fallback,
                 h_result, m_bsi, m_histories, m_news, m_saved, bvars, nvars,
                 dvars, svars, pvars>>

\* histories = scrape_history(page); scrape_news(page) is called.
MainHistory ==
  /\ m_pc = "history" /\ h_pc = "returned"
  /\ m_histories' = h_result
  /\ h_pc' = "idle" /\ h_histories' = EmptyDict /\ h_fiber' = <<>>
  /\ h_loaded' = FALSE /\ h_had_known' = FALSE /\ h_threw' = FALSE
  /\ h_fallback' = 0 /\ h_result' = EmptyDict
  /\ p_html' = <<>> /\ p_text' = <<>> /\ p_sym' = 0 /\ p_matches' = <<>>
  /\ p_mi' = 0 /\ p_hist' = EmptyDict /\ p_log' = <<>>
  /\ m_pc' = "news"
  /\ n_pc' = "goto"
  /\ UNCHANGED <<n_sel, n_news, n_seen, n_result, m_bsi, m_stocks, m_news, m_saved,
                 bvars, dvars, svars, kvars>>

\* news = scrape_news(page)
MainNews ==
  /\ m_pc = "news" /\ n_pc = "returned"
  /\ m_news' = n_result
  /\ n_pc' = "idle" /\ n_sel' = 0 /\ n_news' = <<>> /\ n_seen' = {} /\ n_result' = <<>>
  /\ m_pc' = "close"
  /\ UNCHANGED <<m_bsi, m_stocks, m_histories, m_saved, bvars, dvars, svars, hvars,
                 pvars, kvars>>

\* An exception of a sub-step is caught nowhere in main: it leaves main.
MainRaise ==
  /\ \/ m_pc = "bsi" /\ b_pc = "raised"
     \/ m_pc = "stocks" /\ k_pc = "raised"
     \/ m_pc = "news" /\ n_pc = "raised"
  /\ m_pc' = "raised"
  /\ UNCHANGED <<m_bsi, m_stocks, m_histories, m_news, m_saved, bvars, nvars,
                 dvars, svars, hvars, pvars, kvars>>

\* browser.close() and the end of the with block.
MainClose ==
  /\ m_pc = "close"
  /\ m_pc' = "save_stocks"
  /\ UNCHANGED <<m_bsi, m_stocks, m_histories, m_news, m_saved, bvars, nvars,
                 dvars, svars, hvars, pvars, kvars>>

MainSaveStocks ==
  /\ m_pc = "save_stocks"
  /\ save_json(STOCKS_JSON)
  /\ m_pc' = "save_history"
  /\ UNCHANGED <<m_bsi, m_stocks, m_histories, m_news, bvars, nvars,
                 dvars, svars, hvars, pvars, kvars>>

MainSaveHistory ==
  /\ m_pc = "save_history"
  /\ save_json(HISTORY_JSON)
  /\ m_pc' = "save_news"
  /\ UNCHANGED <<m_bsi, m_stocks, m_histories, m_news, bvars, nvars,
                 dvars, svars, hvars, pvars, kvars>>

MainSaveNews ==
  /\ m_pc = "save_news"
  /\ save_json(NEWS_JSON)
  /\ m_pc' = "done"
  /\ UNCHANGED <<m_bsi, m_stocks, m_histories, m_news, bvars, nvars,
                 dvars, svars, hvars, pvars, kvars>>

\* What the pages of one run of main show.
MainStockPages == {<<RowShort>>, <<RowFull>>}
MainFiberResults ==
  {<<>>, <<[sym |-> BNBL, arr |-> FiberArray("prices")]>>,
   <<[sym |-> BNBL, arr |-> FiberArray("with_null")]>>}
MainHtmls == {<<>>, OneChunk(Block(1, BNBL, 1, "good_a")),
              OneChunk(Block(1, BNBL, 1, "short"))}

Init ==
  /\ IdleDedup /\ IdleScan /\ IdleHistory /\ IdleStocks /\ IdleBsi /\ IdleNews
  /\ m_pc = "launch" /\ m_bsi = Null /\ m_stocks = <<>> /\ m_histories = EmptyDict
  /\ m_news = <<>> /\ m_saved = {}

Next ==
  \/ MainLaunch
  \/ MainBsi
  \/ MainStocks
  \/ MainHistory
  \/ MainNews
  \/ MainRaise
  \/ MainClose
  \/ MainSaveStocks
  \/ MainSaveHistory
  \/ MainSaveNews
  \/ NextBsi
  \/ StocksGoto
  \/ StocksWaitTable
  \/ StocksRows(MainStockPages)
  \/ StocksNext
  \/ StocksSettle
  \/ HistoryGoto
  \/ HistoryGoto2
  \/ HistoryEvaluate(MainFiberResults)
  \/ HistoryItem
  \/ HistoryCheck
  \/ HistoryContent(MainHtmls)
  \/ NextParse
  \/ NextNews

Spec == Init /\ [][Next]_vars

\* ------------------------------------------------------------------------
\* Properties of the normaliser
\* ------------------------------------------------------------------------
HasDay(e) == e.date.t = "str"
Coerces(c) == c.t \in {"num", "str"} /\ Float(c).ok
DayOf(e) == DateKey(e.date.s)

\* Indices of the input records of day k whose close coerces to a number.
CoercibleOfDay(entries, k) ==
  {j \in 1..Len(entries) :
     HasDay(entries[j]) /\ DayOf(entries[j]) = k /\ Coerces(entries[j].close)}

MaxOf(S) == CHOOSE x \in S : \A y \in S : y <= x

StrictlyAscending(out) ==
  \A i \in 1..(Len(out) - 1) : LexLess(out[i].date, out[i + 1].date)

\* C1: for every input sequence, deduplicate_daily returns a series strictly
\* ascending by day key with one entry per day, and each day's close is that
\* of the last input record of that day whose close coerces to a number.
C1_LastCoercibleWins ==
  d_pc = "returned" =>
    /\ StrictlyAscending(d_result)
    /\ \A i, j \in 1..Len(d_result) : i # j => d_result[i].date # d_result[j].date
    /\ \A i \in 1..Len(d_result) :
         LET idx == CoercibleOfDay(d_entries, d_result[i].date)
         IN idx # {} /\ d_result[i].close = Float(d_entries[MaxOf(idx)].close).v

\* C10: every input record with a present date and a present, coercible close
\* (a close equal to the number 0 included) has an entry for its day key in
\* the output of deduplicate_daily.
C10_CoercibleRecordsKept ==
  d_pc = "returned" =>
    \A j \in 1..Len(d_entries) :
      (HasDay(d_entries[j]) /\ Coerces(d_entries[j].close)) =>
         \E i \in 1..Len(d_result) : d_result[i].date = DayOf(d_entries[j])

\* ------------------------------------------------------------------------
\* Properties of the span scan
\* ------------------------------------------------------------------------
\* Number of consecutive backslashes that end right before run j, counted
\* back no further than run a.
BackslashesBefore(text, a, j) ==
  LET run == {k \in 0..(j - a) :
                \A i \in 1..k : text[j - i].ch = BS}
  IN CHOOSE k \in run : \A m \in run : m <= k

\* Is the character of run j inside a string literal of the array text that
\* starts at run a?  A quote opens or closes a literal unless it is inside
\* one and preceded by an odd number of backslashes.
RECURSIVE InLiteral(_, _, _)
InLiteral(text, a, j) ==
  IF j <= a THEN FALSE
  ELSE LET before == InLiteral(text, a, j - 1)
           escaped == before /\ BackslashesBefore(text, a, j - 1) % 2 = 1
       IN IF text[j - 1].ch = Q /\ ~escaped THEN ~before ELSE before

\* Bracket depth after run j, counting only brackets outside literals.
RECURSIVE DepthAfter(_, _, _)
DepthAfter(text, a, j) ==
  IF j < a THEN 0
  ELSE DepthAfter(text, a, j - 1)
       + (IF text[j].ch = "[" /\ ~InLiteral(text, a, j) THEN 1
          ELSE IF text[j].ch = "]" /\ ~InLiteral(text, a, j) THEN -1 ELSE 0)

\* The run of the bracket that matches the opening bracket at run a in the
\* whole buffer, 0 if the buffer holds none.
MatchingBracket(text, a) ==
  LET ends == {j \in a..Len(text) : DepthAfter(text, a, j) = 0}
  IN IF ends = {} THEN 0 ELSE CHOOSE j \in ends : \A i \in ends : j <= i

\* C2: whenever a balanced array starts at the candidate offset and ends
\* anywhere in the buffer, the scan returns the offset right after the
\* matching bracket, and that offset is not inside a string literal.
C2_ScanFindsMatchingBracket ==
  (s_pc = "scanned" /\ MatchingBracket(s_text, s_arr_run) # 0) =>
     LET j == MatchingBracket(s_text, s_arr_run)
     IN /\ s_arr_end = Off(s_text, j) + 1 - s_start
        /\ ~InLiteral(s_text, s_arr_run, j)

\* The same statement for arrays that end inside the search window.
ScanFindsMatchingBracketInWindow ==
  (s_pc = "scanned" /\ MatchingBracket(s_text, s_arr_run) # 0
     /\ Off(s_text, MatchingBracket(s_text, s_arr_run)) < s_end) =>
     LET j == MatchingBracket(s_text, s_arr_run)
     IN /\ s_arr_end = Off(s_text, j) + 1 - s_start
        /\ ~InLiteral(s_text, s_arr_run, j)

\* No span is returned unless the buffer holds the matching bracket.
ScanReturnsOnlyMatches ==
  (s_pc = "scanned" /\ s_arr_end > s_arr_idx) =>
     /\ MatchingBracket(s_text, s_arr_run) # 0
     /\ s_arr_end = Off(s_text, MatchingBracket(s_text, s_arr_run)) + 1 - s_start

\* ------------------------------------------------------------------------
\* Properties of parse_rsc_history
\* ------------------------------------------------------------------------
MatchesOf(s) == FindIter(p_text, SymPattern(KNOWN_SYMBOLS[s]), 1)

\* What occurrence i of symbol s ends in, as Candidate computes it.
OutcomeOf(s, i) == Candidate(p_text, KNOWN_SYMBOLS[s], MatchesOf(s)[i])

\* The array that json.loads yields for occurrence i of symbol s, if the
\* occurrence has a span.
ParsedOf(s, i) ==
  LET m == MatchesOf(s)[i]
      offs == Offsets(p_text)
      start == WindowStart(offs, m)
      end == WindowEnd(p_text, offs, KNOWN_SYMBOLS[s], m)
      a == ArrIdx(p_text, offs, start, end)
      close == IF a = 0 THEN 0 ELSE ScanSpan(p_text, offs, a, end)
  IN IF close = 0 THEN [ok |-> FALSE, arr |-> <<>>]
     ELSE JsonLoads(SubSeq(p_text, a, close))

AllObjects(arr) == \A i \in 1..Len(arr) : arr[i].t = "dict"
FirstHasBoth(arr) ==
  arr # <<>> /\ arr[1].t = "dict" /\ arr[1].date.t # "absent" /\ arr[1].close.t # "absent"

MinOf(S) == CHOOSE x \in S : \A y \in S : x <= y

\* C6 as stated: an array of 20 or more objects whose first element has a
\* date and a close produces a series, an array of fewer than 20 does not.
C6_Original ==
  \A j \in 1..Len(p_log) :
    LET e == p_log[j]
        pr == ParsedOf(e.sym, e.occ)
    IN pr.ok =>
         /\ (Len(pr.arr) >= MIN_LEN /\ AllObjects(pr.arr) /\ FirstHasBoth(pr.arr))
              => e.outcome = "stored"
         /\ Len(pr.arr) < MIN_LEN => e.outcome # "stored"

\* C6 (amended): the decoder rejects a well-formed array for length exactly
\* when it has 20 or fewer elements; an array of more than 20 objects whose
\* first element has a date and a close is accepted and produces the series
\* for the anchor when its normalisation is not empty; an array of 20 or
\* fewer elements never produces a series.
C6_LengthThreshold ==
  \A j \in 1..Len(p_log) :
    LET e == p_log[j]
        pr == ParsedOf(e.sym, e.occ)
    IN pr.ok =>
         /\ Len(pr.arr) <= MIN_LEN => e.outcome = "rejected"
         /\ (Len(pr.arr) > MIN_LEN /\ AllObjects(pr.arr) /\ FirstHasBoth(pr.arr)) =>
              /\ e.outcome \in {"stored", "empty"}
              /\ e.outcome = "stored" <=> deduplicate_daily(pr.arr).out # <<>>
         /\ e.outcome = "stored" =>
              /\ Len(pr.arr) > MIN_LEN
              /\ KNOWN_SYMBOLS[e.sym] \in DOMAIN p_hist
              /\ p_hist[KNOWN_SYMBOLS[e.sym]] = deduplicate_daily(pr.arr).out

\* An array of exactly 20 elements was rejected and one of 21 produced a
\* series.
C6_Witness ==
  \E i, j \in 1..Len(p_log) :
    /\ p_log[i].outcome = "rejected" /\ p_log[i].len = MIN_LEN
    /\ p_log[j].outcome = "stored" /\ p_log[j].len = MIN_LEN + 1

Skips == {"no_prefix", "no_span", "decode_error", "rejected", "empty"}

\* The log examines the symbols in order and, for a symbol, the occurrences
\* from the first on, one after the other, moving on after each skip.
ExaminedInOrder ==
  \A j \in 1..Len(p_log) :
    LET e == p_log[j]
        ms == MatchesOf(e.sym)
    IN
    /\ (j = 1 \/ p_log[j - 1].sym # e.sym) => e.occ = 1
    /\ j > 1 => p_log[j - 1].sym <= e.sym
    /\ (j > 1 /\ p_log[j - 1].sym = e.sym) =>
          /\ e.occ = p_log[j - 1].occ + 1
          /\ p_log[j - 1].outcome \in Skips
    /\ (e.outcome \in Skips /\ e.occ < Len(ms)) =>
          IF j < Len(p_log)
          THEN p_log[j + 1].sym = e.sym /\ p_log[j + 1].occ = e.occ + 1
          ELSE h_pc = "p_occurrence" /\ p_sym = e.sym /\ p_mi = e.occ + 1
    /\ \A i \in 1..(e.occ - 1) : Off(p_text, ms[i]) < Off(p_text, ms[e.occ])

\* The outcomes of all occurrences of symbol s, in order.
OutcomesOf(s) ==
  LET ms == MatchesOf(s)
  IN [i \in 1..Len(ms) |-> Candidate(p_text, KNOWN_SYMBOLS[s], ms[i])]

\* Occurrences whose span parses and passes the acceptance test.
Decoded(outs) ==
  {i \in 1..Len(outs) : outs[i].outcome \in {"stored", "empty", "raised"}}
\* Occurrences whose span yields a series that is not empty.
Yielding(outs) == {i \in 1..Len(outs) : outs[i].outcome = "stored"}

LoggedSymbols == {p_log[j].sym : j \in 1..Len(p_log)}

\* C7 as stated: the first occurrence whose span decodes successfully ends
\* the search for the anchor.
C7_Original ==
  /\ ExaminedInOrder
  /\ \A s \in LoggedSymbols :
       LET dec == Decoded(OutcomesOf(s))
       IN dec # {} => \A j \in 1..Len(p_log) :
                         p_log[j].sym = s => p_log[j].occ <= MinOf(dec)

\* C7 (amended): occurrences are tried in ascending offset; one without a
\* prefix, without a span, rejected by the decoder or normalising to an
\* empty series is skipped and the next is tried; the series stored for the
\* anchor is that of the first occurrence whose span decodes to a series
\* that is not empty, and no later occurrence of the anchor is examined.
C7_FirstYieldingWins ==
  /\ ExaminedInOrder
  /\ \A s \in 1..Len(KNOWN_SYMBOLS) :
       KNOWN_SYMBOLS[s] \in DOMAIN p_hist =>
         LET outs == OutcomesOf(s)
             yld == Yielding(outs)
         IN /\ yld # {}
            /\ p_hist[KNOWN_SYMBOLS[s]] = outs[MinOf(yld)].daily
            /\ \A j \in 1..Len(p_log) :
                 p_log[j].sym = s => p_log[j].occ <= MinOf(yld)
  /\ \A j \in 1..Len(p_log) :
       p_log[j].outcome = "stored" => KNOWN_SYMBOLS[p_log[j].sym] \in DOMAIN p_hist

\* The first occurrence was skipped, the second was stored, a third
\* occurrence of the anchor exists and the search has moved on without it.
C7_Witness ==
  /\ Len(p_log) >= 2
  /\ p_log[1].sym = 1 /\ p_log[1].outcome \in Skips
  /\ p_log[2].sym = 1 /\ p_log[2].outcome = "stored"
  /\ Len(MatchesOf(1)) >= 3
  /\ \A j \in 1..Len(p_log) : p_log[j].sym = 1 => p_log[j].occ <= 2
  /\ p_sym > 1

\* ------------------------------------------------------------------------
\* Properties of scrape_history
\* ------------------------------------------------------------------------
\* C3: when the fiber evaluation returned a mapping with an array for a
\* known symbol, the fallback is never entered.
C3_KnownPrimaryNeverFallsBack ==
  h_had_known => h_fallback = 0

\* C4: after the homepage loaded, a run that returns without entering the
\* fallback has a primary series that is not empty and did not throw.
C4_DoneOnlyWithSeries ==
  (h_pc = "returned" /\ h_loaded /\ h_fallback = 0) =>
     /\ \E sym \in DOMAIN h_result : h_result[sym] # <<>>
     /\ ~h_threw

\* C9: a candidate that does not parse or does not have the record shape
\* ends neither the search nor the run: what parse_rsc_history accumulated
\* is what scrape_history returns.
C9_AccumulatedSeriesReturned ==
  (h_pc = "returned" /\ p_log # <<>>) =>
     /\ \A j \in 1..Len(p_log) : p_log[j].outcome # "raised"
     /\ h_result = p_hist

\* ------------------------------------------------------------------------
\* Properties of scrape_stocks
\* ------------------------------------------------------------------------
\* C8: once the pagination loop is entered it returns the accumulated rows.
C8_PaginationTerminates ==
  (k_pc = "rows") ~> (k_pc = "returned" /\ k_result = k_stocks)

\* A break returns the rows collected so far.
StocksReturnAccumulated ==
  k_pc = "returned" => k_result = k_stocks

\* ------------------------------------------------------------------------
\* Properties of main
\* ------------------------------------------------------------------------
AllDocuments == {STOCKS_JSON, HISTORY_JSON, NEWS_JSON}

\* C5: a timeout of a navigation or of a selector wait in a sub-step is
\* recovered in that sub-step, so every run of main that has ended has
\* written stocks.json, history.json and news.json.
C5_TimeoutsRecovered ==
  m_pc \in {"done", "raised"} => m_saved = AllDocuments

\* A run that reaches the end of main has written the three documents.
CompletedRunSavesAll ==
  m_pc = "done" => m_saved = AllDocuments

\* Nothing is written before the four sub-steps have returned.
SavesOnlyAfterSubSteps ==
  m_saved # {} => m_pc \in {"save_history", "save_news", "done"}

====
